---- MODULE Spec2Model ----
(***************************************************************************)
(* A model of the opencode-notifier plugin: the Config Resolver            *)
(* (loadConfig / saveConfig), the Sound Toggle operations, the debounced   *)
(* notifier and the event dispatcher of the plugin entry point.            *)
(*                                                                         *)
(* JSON values that may be absent are modelled as sets with at most one    *)
(* element: {} is undefined/null, {v} is the value v.                      *)
(***************************************************************************)
EXTENDS Integers, Sequences, FiniteSets, TLC

VARIABLES
  file,            \* the config file at getConfigPath()
  DEFAULT_CONFIG,  \* the module-level DEFAULT_CONFIG object (shared by reference)
  loaded,          \* the object returned by the last loadConfig() of the harness
  loadedRef,       \* which object that is: "DEFAULT_CONFIG" itself or a "fresh" literal
  result,          \* the SoundToggleResult of the last Sound Toggle operation
  lastOp,          \* the name of the last operation on the config file
  pluginConfig,         \* NotifierPlugin: const config = loadConfig()
  suppressWhenFocused,  \* the suppressWhenFocused flag handleEvent reads from config
  projectName,          \* NotifierPlugin: basename(directory), or null
  platform,             \* process.platform
  terminalName,         \* detectTerminal({ preferOuter: true }), or null
  now,                  \* Date.now(), in milliseconds
  lastNotificationTime, \* notify.ts: the debounce map
  sendLog,              \* the sendNotification calls so far, in order
  pc,                   \* where the event handler in flight is suspended
  h,                    \* the event handler invocation in flight, or the last one
  toEmit,               \* number of events and hook calls the host has yet to make
  focus                 \* the last direct call of isTerminalFocused: the OS answer, the value returned

cvars == <<file, DEFAULT_CONFIG, loaded, loadedRef, result, lastOp>>

dvars == <<pluginConfig, suppressWhenFocused, projectName, platform, terminalName, now,
           lastNotificationTime, sendLog, pc, h, toEmit, focus>>

vars == <<cvars, dvars>>

----------------------------------------------------------------------------
(* Optional values *)

Get(o) == CHOOSE v \in o : TRUE

\* The nullish coalescing operator  o ?? d
Coalesce(o, d) == IF o = {} THEN d ELSE Get(o)

----------------------------------------------------------------------------
(* config.ts: types and defaults *)

EventTypes == {"permission", "complete", "subagent_complete", "error", "question"}

DEFAULT_EVENT_CONFIG == [sound |-> TRUE, notification |-> TRUE]

DefaultTimeout == 5

DefaultMinDuration == 0

InitialDefaultConfig ==
  [sound |-> TRUE,
   notification |-> TRUE,
   timeout |-> DefaultTimeout,
   showProjectName |-> TRUE,
   showIcon |-> TRUE,
   notificationSystem |-> "osascript",
   command |-> [enabled |-> FALSE, path |-> "", args |-> {},
                minDuration |-> DefaultMinDuration],
   events |-> [e \in EventTypes |->
                 IF e = "subagent_complete"
                 THEN [sound |-> FALSE, notification |-> FALSE]
                 ELSE DEFAULT_EVENT_CONFIG],
   messages |-> [e \in EventTypes |->
                 CASE e = "permission" -> "Session needs permission"
                   [] e = "complete" -> "Session has finished"
                   [] e = "subagent_complete" -> "Subagent task completed"
                   [] e = "error" -> "Session encountered an error"
                   [] e = "question" -> "Session has a question"],
   sounds |-> [e \in EventTypes |-> {}]]

----------------------------------------------------------------------------
(* The config file.  kind "absent": no file; "malformed": a file whose     *)
(* content JSON.parse (or the property reads that follow) rejects;         *)
(* "object": a JSON object, held as its parsed fields.                     *)

\* A per-event entry: undefined, a boolean shorthand, or a partial object.
UndefinedEntry == [kind |-> "undefined", value |-> FALSE, sound |-> {}, notification |-> {}]

BooleanEntry(b) == [kind |-> "boolean", value |-> b, sound |-> {}, notification |-> {}]

ObjectEntry(s, n) == [kind |-> "object", value |-> FALSE, sound |-> s, notification |-> n]

NoEntries == [e \in EventTypes |-> UndefinedEntry]

EmptyObject ==
  [kind |-> "object",
   sound |-> {}, notification |-> {}, timeout |-> {},
   showProjectName |-> {}, showIcon |-> {}, notificationSystem |-> {},
   command |-> {}, events |-> {}, legacy |-> NoEntries,
   messages |-> {}, sounds |-> {}]

AbsentFile == [EmptyObject EXCEPT !.kind = "absent"]

MalformedFile == [EmptyObject EXCEPT !.kind = "malformed"]

\* existsSync(getConfigPath())
existsSync(f) == f.kind # "absent"

----------------------------------------------------------------------------
(* config.ts: loadConfig *)

parseEventConfig(userEvent, defaultConfig) ==
  IF userEvent.kind = "undefined" THEN defaultConfig
  ELSE IF userEvent.kind = "boolean"
       THEN [sound |-> userEvent.value, notification |-> userEvent.value]
       ELSE [sound |-> Coalesce(userEvent.sound, defaultConfig.sound),
             notification |-> Coalesce(userEvent.notification, defaultConfig.notification)]

userEventOf_legacyFirst(userConfig, e) ==
  LET nested == IF userConfig.events = {} THEN UndefinedEntry
                ELSE Get(userConfig.events)[e]
  IN IF userConfig.legacy[e].kind = "undefined" THEN nested ELSE userConfig.legacy[e]

\* userConfig.events?.<event> ?? userConfig.<event>
userEventOf(userConfig, e) ==
  LET nested == IF userConfig.events = {} THEN UndefinedEntry
                ELSE Get(userConfig.events)[e]
  IN IF nested.kind = "undefined" THEN userConfig.legacy[e] ELSE nested

\* A JSON value of command.args: an array of items [type, v] (JSON.parse
\* keeps the type of each entry), or a value that is not an array.
ArrayValue(items) == [kind |-> "array", items |-> items]

StringValue == [kind |-> "string", items |-> <<>>]

\* Array.isArray
isArray(value) == value.kind = "array"

isString(arg) == arg.type = "string"

\* the array taken as it is
filterStrings_keepsAll(args) == args

filterStrings(args) == SelectSeq(args, isString)

\* The object literal loadConfig builds from a parsed file.
resolveConfig(userConfig, D) ==
  LET globalSound == Coalesce(userConfig.sound, D.sound)
      globalNotification == Coalesce(userConfig.notification, D.notification)
      defaultWithGlobal == [sound |-> globalSound, notification |-> globalNotification]
      userCommand == Coalesce(userConfig.command,
                       [enabled |-> {}, path |-> {}, args |-> {}, minDuration |-> {}])
      commandArgs == IF userCommand.args # {} /\ isArray(Get(userCommand.args))
                     THEN {filterStrings(Get(userCommand.args).items)}
                     ELSE {}
      commandMinDuration ==
        IF userCommand.minDuration # {} /\ Get(userCommand.minDuration) > 0
        THEN Get(userCommand.minDuration) ELSE 0
  IN [sound |-> globalSound,
      notification |-> globalNotification,
      timeout |-> IF userConfig.timeout # {} /\ Get(userConfig.timeout) > 0
                  THEN Get(userConfig.timeout) ELSE D.timeout,
      showProjectName |-> Coalesce(userConfig.showProjectName, D.showProjectName),
      showIcon |-> Coalesce(userConfig.showIcon, D.showIcon),
      notificationSystem |->
        IF userConfig.notificationSystem = {"node-notifier"}
        THEN "node-notifier" ELSE "osascript",
      command |-> [enabled |-> Coalesce(userCommand.enabled, D.command.enabled),
                   path |-> Coalesce(userCommand.path, D.command.path),
                   args |-> commandArgs,
                   minDuration |-> commandMinDuration],
      events |-> [e \in EventTypes |->
                    parseEventConfig(userEventOf(userConfig, e),
                      IF e = "subagent_complete"
                      THEN [sound |-> FALSE, notification |-> FALSE]
                      ELSE defaultWithGlobal)],
      messages |-> [e \in EventTypes |->
                      IF userConfig.messages = {} THEN D.messages[e]
                      ELSE Coalesce(Get(userConfig.messages)[e], D.messages[e])],
      sounds |-> [e \in EventTypes |->
                    IF userConfig.sounds = {} THEN D.sounds[e]
                    ELSE IF Get(userConfig.sounds)[e] = {} THEN D.sounds[e]
                         ELSE Get(userConfig.sounds)[e]]]

\* loadConfig returns DEFAULT_CONFIG itself (the same object) when the file
\* is absent or cannot be parsed.
returnsDefaultObject(f) == f.kind # "object"

loadConfig(f, D) == IF returnsDefaultObject(f) THEN D ELSE resolveConfig(f, D)

----------------------------------------------------------------------------
(* config.ts: saveConfig.  The result is the file as JSON.parse reads it   *)
(* back: JSON.stringify drops the properties whose value is undefined.     *)

differsFromDefault(config, e) ==
  IF e = "subagent_complete"
  THEN config.events[e].sound # FALSE \/ config.events[e].notification # FALSE
  ELSE config.events[e].sound # config.sound
         \/ config.events[e].notification # config.notification

savedEvents(config) ==
  [e \in EventTypes |->
     IF differsFromDefault(config, e)
     THEN ObjectEntry({config.events[e].sound}, {config.events[e].notification})
     ELSE UndefinedEntry]

saveConfig(config) ==
  [kind |-> "object",
   sound |-> {config.sound},
   notification |-> {config.notification},
   timeout |-> {config.timeout},
   showProjectName |-> {config.showProjectName},
   showIcon |-> {config.showIcon},
   notificationSystem |-> {config.notificationSystem},
   events |-> IF savedEvents(config) = NoEntries THEN {} ELSE {savedEvents(config)},
   legacy |-> NoEntries,
   command |-> IF config.command.enabled \/ config.command.path # ""
               THEN {[enabled |-> {config.command.enabled},
                      path |-> {config.command.path},
                      args |-> IF config.command.args = {} THEN {}
                               ELSE {ArrayValue(Get(config.command.args))},
                      minDuration |-> {config.command.minDuration}]}
               ELSE {},
   messages |-> {[e \in EventTypes |-> {config.messages[e]}]},
   sounds |-> {}]

----------------------------------------------------------------------------
(* sound-toggle.ts.  Each operation is a function of the file and of        *)
(* DEFAULT_CONFIG and yields the file, DEFAULT_CONFIG and the result after  *)
(* it.  Messages are sequences of text segments; Includes is                *)
(* String.prototype.includes on a segment boundary.                         *)

Includes(message, part) == \E i \in DOMAIN message : message[i] = part

NotFoundMessage ==
  <<"Config file not found",
    ". Please run the notifier plugin first to create the default config.">>

NotFoundResult == [success |-> FALSE, message |-> NotFoundMessage, soundEnabled |-> {}]

NoResult == [success |-> FALSE, message |-> <<>>, soundEnabled |-> {}]

EnabledMessage == <<"Sounds have been enabled.">>

DisabledMessage == <<"Sounds have been disabled.">>

validateConfigExists_skipped(f) == TRUE

validateConfigExists(f) == existsSync(f)

\* const config = loadConfig(); config.sound = b; saveConfig(config)
\* The assignment writes through to DEFAULT_CONFIG when loadConfig returned it.
assignSoundAndSave(f, D, b) ==
  LET config == [loadConfig(f, D) EXCEPT !.sound = b]
  IN [file |-> saveConfig(config),
      DEFAULT_CONFIG |-> IF returnsDefaultObject(f) THEN config ELSE D]

enableSound_flips(f, D) ==
  IF ~validateConfigExists(f)
  THEN [file |-> f, DEFAULT_CONFIG |-> D, result |-> NotFoundResult]
  ELSE LET newSound == ~loadConfig(f, D).sound
           w == assignSoundAndSave(f, D, newSound)
       IN [file |-> w.file, DEFAULT_CONFIG |-> w.DEFAULT_CONFIG,
           result |-> [success |-> TRUE, message |-> EnabledMessage,
                       soundEnabled |-> {newSound}]]

enableSound(f, D) ==
  IF ~validateConfigExists(f)
  THEN [file |-> f, DEFAULT_CONFIG |-> D, result |-> NotFoundResult]
  ELSE LET w == assignSoundAndSave(f, D, TRUE)
       IN [file |-> w.file, DEFAULT_CONFIG |-> w.DEFAULT_CONFIG,
           result |-> [success |-> TRUE, message |-> EnabledMessage,
                       soundEnabled |-> {TRUE}]]

disableSound(f, D) ==
  IF ~validateConfigExists(f)
  THEN [file |-> f, DEFAULT_CONFIG |-> D, result |-> NotFoundResult]
  ELSE LET w == assignSoundAndSave(f, D, FALSE)
       IN [file |-> w.file, DEFAULT_CONFIG |-> w.DEFAULT_CONFIG,
           result |-> [success |-> TRUE, message |-> DisabledMessage,
                       soundEnabled |-> {FALSE}]]

toggleSound_negatesResultOnly(f, D) ==
  IF ~validateConfigExists(f)
  THEN [file |-> f, DEFAULT_CONFIG |-> D, result |-> NotFoundResult]
  ELSE LET newSound == ~loadConfig(f, D).sound
           w == assignSoundAndSave(f, D, loadConfig(f, D).sound)
       IN [file |-> w.file, DEFAULT_CONFIG |-> w.DEFAULT_CONFIG,
           result |-> [success |-> TRUE,
                       message |-> IF newSound THEN EnabledMessage ELSE DisabledMessage,
                       soundEnabled |-> {newSound}]]

toggleSound(f, D) ==
  IF ~validateConfigExists(f)
  THEN [file |-> f, DEFAULT_CONFIG |-> D, result |-> NotFoundResult]
  ELSE LET newSound == ~loadConfig(f, D).sound
           w == assignSoundAndSave(f, D, newSound)
       IN [file |-> w.file, DEFAULT_CONFIG |-> w.DEFAULT_CONFIG,
           result |-> [success |-> TRUE,
                       message |-> IF newSound THEN EnabledMessage ELSE DisabledMessage,
                       soundEnabled |-> {newSound}]]

\* soundStatus writing back the configuration it loaded
soundStatus_saves(f, D) ==
  IF ~validateConfigExists(f)
  THEN [file |-> f, DEFAULT_CONFIG |-> D, result |-> NotFoundResult]
  ELSE LET isEnabled == loadConfig(f, D).sound
       IN [file |-> saveConfig(loadConfig(f, D)), DEFAULT_CONFIG |-> D,
           result |-> [success |-> TRUE,
                       message |-> IF isEnabled THEN <<"Sounds are currently enabled.">>
                                   ELSE <<"Sounds are currently disabled.">>,
                       soundEnabled |-> {isEnabled}]]

soundStatus(f, D) ==
  IF ~validateConfigExists(f)
  THEN [file |-> f, DEFAULT_CONFIG |-> D, result |-> NotFoundResult]
  ELSE LET isEnabled == loadConfig(f, D).sound
       IN [file |-> f, DEFAULT_CONFIG |-> D,
           result |-> [success |-> TRUE,
                       message |-> IF isEnabled THEN <<"Sounds are currently enabled.">>
                                   ELSE <<"Sounds are currently disabled.">>,
                       soundEnabled |-> {isEnabled}]]

SoundToggleActions == {"toggle", "enable", "disable", "status"}

executeSoundToggle(action, f, D) ==
  CASE action = "toggle" -> toggleSound(f, D)
    [] action = "enable" -> enableSound(f, D)
    [] action = "disable" -> disableSound(f, D)
    [] action = "status" -> soundStatus(f, D)
    [] OTHER -> [file |-> f, DEFAULT_CONFIG |-> D,
                 result |-> [success |-> FALSE,
                             message |-> <<"Unknown action: ", action>>,
                             soundEnabled |-> {}]]

----------------------------------------------------------------------------
(* Terminal Focus Detector.  Application names are sequences of characters. *)

UpperCase == <<"A","B","C","D","E","F","G","H","I","J","K","L","M",
               "N","O","P","Q","R","S","T","U","V","W","X","Y","Z">>

LowerCase == <<"a","b","c","d","e","f","g","h","i","j","k","l","m",
               "n","o","p","q","r","s","t","u","v","w","x","y","z">>

Digits == {"0","1","2","3","4","5","6","7","8","9"}

toLowerChar(c) ==
  IF \E i \in DOMAIN UpperCase : UpperCase[i] = c
  THEN LowerCase[CHOOSE i \in DOMAIN UpperCase : UpperCase[i] = c]
  ELSE c

toLowerCase(value) == [i \in DOMAIN value |-> toLowerChar(value[i])]

\* the characters /[^a-z0-9]/ does not match
isAlphanumeric(c) == c \in Digits \/ \E i \in DOMAIN LowerCase : LowerCase[i] = c

normalizeAppName(value) == SelectSeq(toLowerCase(value), isAlphanumeric)

\* String.prototype.includes
includes(a, b) ==
  \E i \in 0..(Len(a) - Len(b)) : SubSeq(a, i + 1, i + Len(b)) = b

\* matchesTerminal testing the containment in one direction only
matchesTerminal_oneWay(frontmost, terminal) ==
  LET frontNormalized == normalizeAppName(frontmost)
      terminalNormalized == normalizeAppName(terminal)
  IN IF frontNormalized = <<>> \/ terminalNormalized = <<>> THEN FALSE
     ELSE includes(frontNormalized, terminalNormalized)

matchesTerminal(frontmost, terminal) ==
  LET frontNormalized == normalizeAppName(frontmost)
      terminalNormalized == normalizeAppName(terminal)
  IN IF frontNormalized = <<>> \/ terminalNormalized = <<>> THEN FALSE
     ELSE includes(frontNormalized, terminalNormalized)
            \/ includes(terminalNormalized, frontNormalized)

TERMINAL_PROCESS_NAMES ==
  {<<<<"g", "h", "o", "s", "t", "t", "y">>, <<"G", "h", "o", "s", "t", "t", "y">>>>,
   <<<<"k", "i", "t", "t", "y">>, <<"k", "i", "t", "t", "y">>>>,
   <<<<"i", "t", "e", "r", "m">>, <<"i", "T", "e", "r", "m", "2">>>>,
   <<<<"i", "t", "e", "r", "m", "2">>, <<"i", "T", "e", "r", "m", "2">>>>,
   <<<<"w", "e", "z", "t", "e", "r", "m">>, <<"W", "e", "z", "T", "e", "r", "m">>>>,
   <<<<"a", "l", "a", "c", "r", "i", "t", "t", "y">>, <<"A", "l", "a", "c", "r", "i", "t", "t", "y">>>>,
   <<<<"t", "e", "r", "m", "i", "n", "a", "l">>, <<"T", "e", "r", "m", "i", "n", "a", "l">>>>,
   <<<<"a", "p", "p", "l", "e", "_", "t", "e", "r", "m", "i", "n", "a", "l">>, <<"T", "e", "r", "m", "i", "n", "a", "l">>>>,
   <<<<"h", "y", "p", "e", "r">>, <<"H", "y", "p", "e", "r">>>>,
   <<<<"w", "a", "r", "p">>, <<"W", "a", "r", "p">>>>,
   <<<<"v", "s", "c", "o", "d", "e">>, <<"C", "o", "d", "e">>>>,
   <<<<"v", "s", "c", "o", "d", "e", "-", "i", "n", "s", "i", "d", "e", "r", "s">>, <<"C", "o", "d", "e", " ", "-", " ", "I", "n", "s", "i", "d", "e", "r", "s">>>>}

getTerminalProcessName(name) ==
  IF \E kv \in TERMINAL_PROCESS_NAMES : kv[1] = toLowerCase(name)
  THEN (CHOOSE kv \in TERMINAL_PROCESS_NAMES : kv[1] = toLowerCase(name))[2]
  ELSE name

\* isTerminalFocused awaits an OS query only with a detected terminal on
\* macOS or Windows; otherwise it returns false at once.
queriesFrontmost(plat, terminal) == terminal # {} /\ plat \in {"darwin", "win32"}

\* The value isTerminalFocused returns; frontmost is what the OS query
\* resolved to: {} for null (spawn error, non-zero exit), else the trimmed output.
isTerminalFocused(plat, terminal, frontmost) ==
  IF terminal = {} THEN FALSE
  ELSE IF plat = "darwin"
       THEN IF frontmost = {} \/ frontmost = {<<>>} THEN FALSE
            ELSE toLowerCase(Get(frontmost))
                   = toLowerCase(getTerminalProcessName(Get(terminal)))
       ELSE IF plat = "win32"
            THEN IF frontmost = {} \/ frontmost = {<<>>} THEN FALSE
                 ELSE matchesTerminal(Get(frontmost), Get(terminal))
            ELSE FALSE

----------------------------------------------------------------------------
(* notify.ts *)

DEBOUNCE_MS == 1000

\* lastNotificationTime[message] && now - lastNotificationTime[message] < DEBOUNCE_MS
debounced(message, last, t) ==
  /\ message \in DOMAIN last
  /\ last[message] # 0
  /\ t - last[message] < DEBOUNCE_MS

\* sendNotification(message, timeout) called at time t: whether the
\* notification reaches platformNotifier.notify, and the debounce map after.
sendNotification(message, timeout, last, t) ==
  IF debounced(message, last, t)
  THEN [delivered |-> FALSE, last |-> last]
  ELSE [delivered |-> TRUE,
        last |-> [k \in DOMAIN last \cup {message} |->
                    IF k = message THEN t ELSE last[k]]]

\* The promise of a delivered notification: the notify callback resolves it
\* whether or not the notifier reports an error.
notificationSettles(failed) == "fulfilled"

----------------------------------------------------------------------------
(* index.ts: the dispatcher *)

isEventSoundEnabled(c, event) == c.events[event].sound

isEventNotificationEnabled(c, event) == c.events[event].notification

getMessage(c, event) == c.messages[event]

getSoundPath(c, event) == c.sounds[event]

getNotificationTitle(c, name) ==
  IF c.showProjectName /\ name # {}
  THEN <<"OpenCode (", Get(name), ")">>
  ELSE <<"OpenCode">>

\* getSessionIDFromEvent: the id when it is a non-empty string, else null.
\* properties.sessionID is {} when missing, else {id}.
getSessionIDFromEvent(sessionID) ==
  IF sessionID # {} /\ Get(sessionID) # "" THEN sessionID ELSE {}

\* isChildSession with a catch block that takes a failed query for a child
isChildSession_throwsAsChild(sessionGet) ==
  sessionGet \in {"throws", "child"}

\* isChildSession, by what client.session.get did: "throws", or resolved with
\* "noData", "root" (no parentID), "emptyParent" (parentID "") or "child".
isChildSession(sessionGet) ==
  IF sessionGet = "throws" THEN FALSE ELSE sessionGet = "child"

NoResponse == [kind |-> "none", data |-> <<>>]

RECURSIVE lastUserMessageTime(_, _, _)
\* the loop of getElapsedSinceLastPrompt over messages[i..], from accumulator acc
lastUserMessageTime(messages, i, acc) ==
  IF i > Len(messages) THEN acc
  ELSE LET info == messages[i]
       IN lastUserMessageTime(messages, i + 1,
            IF info.role = "user" /\ info.created # {}
                 /\ (acc = {} \/ Get(info.created) > Get(acc))
            THEN info.created ELSE acc)

\* getElapsedSinceLastPrompt at time t, in milliseconds (the code divides by
\* 1000; shouldSkipCommand compares against minDuration * 1000 instead).
getElapsedSinceLastPrompt(response, t) ==
  IF response.kind = "throws" THEN {}
  ELSE LET last == lastUserMessageTime(response.data, 1, {})
       IN IF last # {} THEN {t - Get(last)} ELSE {}

shouldLookupElapsed(c) ==
  c.command.enabled /\ c.command.path # "" /\ c.command.minDuration > 0

\* shouldSkipCommand taking an unknown elapsed time for zero seconds
shouldSkipCommand_unknownAsZero(minDuration, elapsedSeconds) ==
  /\ minDuration > 0
  /\ (elapsedSeconds = {} \/ Get(elapsedSeconds) < minDuration * 1000)

shouldSkipCommand(minDuration, elapsedSeconds) ==
  /\ minDuration > 0
  /\ elapsedSeconds # {}
  /\ Get(elapsedSeconds) < minDuration * 1000

\* the focus check hoisted out of the notification branch
consultsFocus_outsideNotificationBranch(c, suppress, eventType) == suppress

\* whether handleEvent asks the focus detector for this event type
consultsFocus(c, suppress, eventType) ==
  isEventNotificationEnabled(c, eventType) /\ suppress

\* playSound(eventType, customSoundPath) of ./sound: an async function, it
\* returns a promise at once
playSound(eventType, customSoundPath) == "pending"

\* how the promise of playSound settles
SoundOutcomes == {"fulfilled", "rejected"}

\* the join written with Promise.all
allSettled_all(notification, sound) ==
  IF sound = "rejected" THEN "rejected" ELSE "resolved"

\* await Promise.allSettled(promises): how the join settles
allSettled(notification, sound) == "resolved"

NewInvocation(hook, type, sessionID) ==
  [hook |-> hook, type |-> type, sessionID |-> sessionID,
   handled |-> <<>>, eventType |-> "",
   sessionGet |-> "none", response |-> NoResponse,
   elapsedAt |-> 0, elapsedSeconds |-> {},
   focusConsulted |-> FALSE, focusQuery |-> "none", focused |-> FALSE,
   calls |-> {}, notification |-> "none", notifierError |-> FALSE,
   sound |-> "none", outcome |-> "pending"]

NoInvocation == [NewInvocation("", "", {}) EXCEPT !.outcome = "none"]

\* the handler's promise settles
finish(hr, last, log) ==
  [pc |-> "idle",
   h |-> [hr EXCEPT !.outcome = allSettled(hr.notification, hr.sound)],
   last |-> last, log |-> log]

\* handleEvent from the notification branch on, the focus check done;
\* runCommand of ./command starts the command and returns (fire-and-forget)
dispatch(hr, last, log, t) ==
  LET eventType == hr.eventType
      message == getMessage(pluginConfig, eventType)
      notify == isEventNotificationEnabled(pluginConfig, eventType)
      sent == sendNotification(getNotificationTitle(pluginConfig, projectName),
                               message, last, t)
      sound == isEventSoundEnabled(pluginConfig, eventType)
      skip == shouldSkipCommand(pluginConfig.command.minDuration, hr.elapsedSeconds)
      hr2 == [hr EXCEPT
                !.calls = (IF notify THEN {"sendNotification"} ELSE {})
                            \cup (IF sound THEN {"playSound"} ELSE {})
                            \cup (IF skip THEN {} ELSE {"runCommand"}),
                !.notification = IF ~notify THEN "none"
                                 ELSE IF sent.delivered THEN "pending" ELSE "fulfilled",
                !.sound = IF sound
                          THEN playSound(eventType, getSoundPath(pluginConfig, eventType))
                          ELSE "none"]
      last2 == IF notify THEN sent.last ELSE last
      log2 == IF notify
              THEN Append(log, [at |-> t, eventType |-> eventType, text |-> message,
                                message |-> getNotificationTitle(pluginConfig, projectName),
                                timeout |-> message,
                                delivered |-> sent.delivered])
              ELSE log
  IN IF hr2.notification = "pending" \/ hr2.sound = "pending"
     THEN [pc |-> "allSettled", h |-> hr2, last |-> last2, log |-> log2]
     ELSE finish(hr2, last2, log2)

\* handleEvent(config, eventType, projectName, elapsedSeconds), to its first await
handleEvent(hr, eventType, elapsedSeconds, last, log, t) ==
  LET hr1 == [hr EXCEPT !.handled = Append(@, eventType), !.eventType = eventType,
                        !.elapsedSeconds = elapsedSeconds]
  IN IF consultsFocus(pluginConfig, suppressWhenFocused, eventType)
     THEN IF queriesFrontmost(platform, terminalName)
          THEN [pc |-> "isTerminalFocused", h |-> [hr1 EXCEPT !.focusConsulted = TRUE],
                last |-> last, log |-> log]
          ELSE dispatch([hr1 EXCEPT !.focusConsulted = TRUE], last, log, t)
     ELSE dispatch(hr1, last, log, t)

\* handleEventWithElapsedTime(client, config, eventType, projectName, event),
\* to its first await
handleEventWithElapsedTime(hr, eventType, last, log, t) ==
  IF shouldLookupElapsed(pluginConfig) /\ getSessionIDFromEvent(hr.sessionID) # {}
  THEN [pc |-> "session.messages", h |-> [hr EXCEPT !.eventType = eventType],
        last |-> last, log |-> log]
  ELSE handleEvent(hr, eventType, {}, last, log, t)

\* the event hook, to its first await
eventHook(hr, last, log, t) ==
  CASE hr.type \in {"permission.updated", "permission.asked"} ->
         handleEventWithElapsedTime(hr, "permission", last, log, t)
    [] hr.type = "session.idle" ->
         IF getSessionIDFromEvent(hr.sessionID) # {}
         THEN [pc |-> "session.get", h |-> hr, last |-> last, log |-> log]
         ELSE handleEventWithElapsedTime(hr, "complete", last, log, t)
    [] hr.type = "session.error" ->
         handleEventWithElapsedTime(hr, "error", last, log, t)
    [] OTHER -> finish(hr, last, log)

----------------------------------------------------------------------------
(* The dispatcher's steps *)

MaxEvents == 1

MaxBurst == 3

MaxTicks == 2

MaxMessages == 2

HostEventTypes ==
  {"permission.updated", "permission.asked", "session.idle", "session.error",
   "message.updated"}

SessionIDs == {{}, {""}, {"ses_1"}}

SessionGetOutcomes == {"throws", "noData", "root", "emptyParent", "child"}

\* messages of a session as the host returns them at time t
MessageChoices(t) ==
  {[role |-> "user", created |-> {t - 10000}],
   [role |-> "user", created |-> {t - 31000}],
   [role |-> "user", created |-> {}],
   [role |-> "assistant", created |-> {t - 1000}]}

ResponseChoices(t) ==
  {[kind |-> "throws", data |-> <<>>]}
    \cup {[kind |-> "ok", data |-> d] :
            d \in UNION {[1..n -> MessageChoices(t)] : n \in 0..MaxMessages}}

FrontmostChoices ==
  {{}, {<<>>}, {<<"i", "T", "e", "r", "m", "2">>}, {<<"F", "i", "n", "d", "e", "r">>}, {<<"k", "i", "t", "t", "y">>}, {<<"W", "i", "n", "d", "o", "w", "s", "T", "e", "r", "m", "i", "n", "a", "l">>}}

\* step to the state r
become(r) ==
  /\ pc' = r.pc
  /\ h' = r.h
  /\ lastNotificationTime' = r.last
  /\ sendLog' = r.log

StartGuard == pc = "idle" /\ toEmit > 0

\* the host calls the event hook
HostEvent ==
  /\ StartGuard
  /\ \E type \in HostEventTypes, sessionID \in SessionIDs :
       become(eventHook(NewInvocation("event", type, sessionID),
                        lastNotificationTime, sendLog, now))
  /\ toEmit' = toEmit - 1
  /\ UNCHANGED <<cvars, focus, pluginConfig, suppressWhenFocused, projectName, platform,
                 terminalName, now>>

\* the host calls the "permission.ask" hook
PermissionAsk ==
  /\ StartGuard
  /\ become(handleEvent(NewInvocation("permission.ask", "", {}), "permission", {},
                        lastNotificationTime, sendLog, now))
  /\ toEmit' = toEmit - 1
  /\ UNCHANGED <<cvars, focus, pluginConfig, suppressWhenFocused, projectName, platform,
                 terminalName, now>>

\* the host calls the "tool.execute.before" hook
ToolExecuteBefore ==
  /\ StartGuard
  /\ \E tool \in {"question", "bash"} :
       LET hr == NewInvocation("tool.execute.before", tool, {})
       IN IF tool = "question"
          THEN become(handleEvent(hr, "question", {}, lastNotificationTime, sendLog, now))
          ELSE become(finish(hr, lastNotificationTime, sendLog))
  /\ toEmit' = toEmit - 1
  /\ UNCHANGED <<cvars, focus, pluginConfig, suppressWhenFocused, projectName, platform,
                 terminalName, now>>

\* client.session.get settles and the session.idle branch goes on
SettleSessionGet ==
  /\ pc = "session.get"
  /\ \E outcome \in SessionGetOutcomes :
       LET hr == [h EXCEPT !.sessionGet = outcome]
       IN become(handleEventWithElapsedTime(hr,
                   IF isChildSession(outcome) THEN "subagent_complete" ELSE "complete",
                   lastNotificationTime, sendLog, now))
  /\ UNCHANGED <<cvars, focus, pluginConfig, suppressWhenFocused, projectName, platform,
                 terminalName, now, toEmit>>

\* client.session.messages settles and handleEvent starts
SettleSessionMessages ==
  /\ pc = "session.messages"
  /\ \E response \in ResponseChoices(now) :
       LET hr == [h EXCEPT !.response = response, !.elapsedAt = now]
       IN become(handleEvent(hr, h.eventType,
                   getElapsedSinceLastPrompt(response, now),
                   lastNotificationTime, sendLog, now))
  /\ UNCHANGED <<cvars, focus, pluginConfig, suppressWhenFocused, projectName, platform,
                 terminalName, now, toEmit>>

\* the OS query of isTerminalFocused settles: return early or dispatch
SettleFocusQuery ==
  /\ pc = "isTerminalFocused"
  /\ \E frontmost \in FrontmostChoices :
       LET focused == isTerminalFocused(platform, terminalName, frontmost)
           hr == [h EXCEPT !.focusQuery = IF frontmost = {} THEN "failed" ELSE "answered",
                           !.focused = focused]
       IN IF focused
          THEN become(finish(hr, lastNotificationTime, sendLog))
          ELSE become(dispatch(hr, lastNotificationTime, sendLog, now))
  /\ UNCHANGED <<cvars, focus, pluginConfig, suppressWhenFocused, projectName, platform,
                 terminalName, now, toEmit>>

\* the notifier calls back, with or without an error
SettleNotification ==
  /\ pc = "allSettled"
  /\ h.notification = "pending"
  /\ \E failed \in BOOLEAN :
       LET hr == [h EXCEPT !.notification = notificationSettles(failed),
                           !.notifierError = failed]
       IN IF hr.sound = "pending"
          THEN become([pc |-> pc, h |-> hr, last |-> lastNotificationTime,
                       log |-> sendLog])
          ELSE become(finish(hr, lastNotificationTime, sendLog))
  /\ UNCHANGED <<cvars, focus, pluginConfig, suppressWhenFocused, projectName, platform,
                 terminalName, now, toEmit>>

\* the promise of playSound settles, fulfilled or rejected
SettleSound ==
  /\ pc = "allSettled"
  /\ h.sound = "pending"
  /\ \E outcome \in SoundOutcomes :
       LET hr == [h EXCEPT !.sound = outcome]
       IN IF hr.notification = "pending"
          THEN become([pc |-> pc, h |-> hr, last |-> lastNotificationTime,
                       log |-> sendLog])
          ELSE become(finish(hr, lastNotificationTime, sendLog))
  /\ UNCHANGED <<cvars, focus, pluginConfig, suppressWhenFocused, projectName, platform,
                 terminalName, now, toEmit>>

\* time passes between two calls of the host; a step is half the debounce
\* window, against which the awaits of a handler are short
Tick ==
  /\ pc = "idle"
  /\ (now - 100000) \div (DEBOUNCE_MS \div 2) < MaxTicks
  /\ now' = now + (DEBOUNCE_MS \div 2)
  /\ UNCHANGED <<cvars, focus, pluginConfig, suppressWhenFocused, projectName, platform,
                 terminalName, lastNotificationTime, sendLog, pc, h, toEmit>>

\* the activations of the plugin: config file, suppression flag, platform
\* and detected terminal
Activations ==
  LET say == [enabled |-> {TRUE}, path |-> {"/usr/bin/say"}, args |-> {},
              minDuration |-> {}]
      timed == [EmptyObject EXCEPT !.command = {[say EXCEPT !.minDuration = {30}]}]
      untimed == [EmptyObject EXCEPT !.command = {say}]
      soundOnly == [timed EXCEPT !.notification = {FALSE}]
      subagents == [EmptyObject EXCEPT
                      !.sound = {FALSE},
                      !.events = {[NoEntries EXCEPT
                                     !["subagent_complete"] = BooleanEntry(TRUE)]}]
      off == [EmptyObject EXCEPT !.command = {[say EXCEPT !.enabled = {FALSE},
                                                          !.minDuration = {30}]}]
  IN {[file |-> EmptyObject, suppress |-> FALSE, platform |-> "linux", terminal |-> {<<"k", "i", "t", "t", "y">>}],
      [file |-> timed, suppress |-> FALSE, platform |-> "darwin", terminal |-> {<<"i", "t", "e", "r", "m">>}],
      [file |-> untimed, suppress |-> TRUE, platform |-> "linux", terminal |-> {<<"k", "i", "t", "t", "y">>}],
      [file |-> EmptyObject, suppress |-> TRUE, platform |-> "darwin", terminal |-> {<<"i", "t", "e", "r", "m">>}],
      [file |-> soundOnly, suppress |-> TRUE, platform |-> "darwin", terminal |-> {<<"i", "t", "e", "r", "m">>}],
      [file |-> subagents, suppress |-> TRUE, platform |-> "win32", terminal |-> {<<"k", "i", "t", "t", "y">>}],
      [file |-> off, suppress |-> TRUE, platform |-> "darwin", terminal |-> {}],
      [file |-> timed, suppress |-> TRUE, platform |-> "win32", terminal |-> {<<"i", "t", "e", "r", "m">>}]}

NoFocusCall == [called |-> FALSE, frontmost |-> {}, focused |-> FALSE]

IdleDispatcher ==
  /\ projectName = {"workspace"}
  /\ now = 100000
  /\ lastNotificationTime = <<>>
  /\ sendLog = <<>>
  /\ pc = "idle"
  /\ h = NoInvocation
  /\ focus = NoFocusCall

\* NotifierPlugin: the plugin is activated
activated(a) ==
  /\ file = a.file
  /\ DEFAULT_CONFIG = InitialDefaultConfig
  /\ loaded = {}
  /\ loadedRef = "none"
  /\ result = NoResult
  /\ lastOp = "init"
  /\ pluginConfig = loadConfig(file, DEFAULT_CONFIG)
  /\ suppressWhenFocused = a.suppress
  /\ platform = a.platform
  /\ terminalName = a.terminal
  /\ IdleDispatcher

InitDispatch ==
  /\ \E a \in Activations : activated(a)
  /\ toEmit = MaxEvents

\* a burst of events, in a project with no settings in its config file and
\* in one with notifications off and a timed command
InitDebounce ==
  /\ \E a \in Activations :
       /\ \/ a.file = EmptyObject /\ a.suppress
          \/ a.file.notification = {FALSE}
       /\ activated(a)
  /\ toEmit = MaxBurst

NextDispatch ==
  \/ HostEvent
  \/ PermissionAsk
  \/ ToolExecuteBefore
  \/ SettleSessionGet
  \/ SettleSessionMessages
  \/ SettleFocusQuery
  \/ SettleNotification
  \/ SettleSound
  \/ Tick

SpecDispatch == InitDispatch /\ [][NextDispatch]_vars

SpecDebounce == InitDebounce /\ [][NextDispatch]_vars

----------------------------------------------------------------------------
(* The Terminal Focus Detector called on its own *)

\* values of detectTerminal({ preferOuter: true })
DetectedTerminals ==
  {{}, {<<"k", "i", "t", "t", "y">>}, {<<"i", "t", "e", "r", "m">>}, {<<"i", "T", "e", "r", "m", ".", "a", "p", "p">>}, {<<"v", "s", "c", "o", "d", "e">>}, {<<"a", "p", "p", "l", "e", "_", "t", "e", "r", "m", "i", "n", "a", "l">>}, {<<"t", "m", "u", "x">>}}

\* what the OS query resolves to: null, or the trimmed output
FrontmostAnswers ==
  FrontmostChoices \cup {{<<"C", "o", "d", "e">>}, {<<"X", "c", "o", "d", "e">>}, {<<"T", "e", "r", "m", "i", "n", "a", "l">>}, {<<"i", "T", "e", "r", "m">>}, {<<"-">>}}

InitFocus ==
  /\ \E plat \in {"darwin", "win32", "linux"}, terminal \in DetectedTerminals :
       activated([file |-> EmptyObject, suppress |-> FALSE,
                  platform |-> plat, terminal |-> terminal])
  /\ toEmit = 0

\* isTerminalFocused()
IsTerminalFocused ==
  /\ IF queriesFrontmost(platform, terminalName)
     THEN \E frontmost \in FrontmostAnswers :
            focus' = [called |-> TRUE, frontmost |-> frontmost,
                      focused |-> isTerminalFocused(platform, terminalName, frontmost)]
     ELSE focus' = [called |-> TRUE, frontmost |-> {},
                    focused |-> isTerminalFocused(platform, terminalName, {})]
  /\ UNCHANGED <<cvars, pluginConfig, suppressWhenFocused, projectName, platform,
                 terminalName, now, lastNotificationTime, sendLog, pc, h, toEmit>>

NextFocus == IsTerminalFocused

SpecFocus == InitFocus /\ [][NextFocus]_vars

----------------------------------------------------------------------------
(* The config files the checks start from *)

MaxArgs == 2

OptBool == {{}, {TRUE}, {FALSE}}

EntryChoices ==
  {UndefinedEntry, BooleanEntry(TRUE), BooleanEntry(FALSE),
   ObjectEntry({}, {}), ObjectEntry({FALSE}, {}), ObjectEntry({TRUE}, {}),
   ObjectEntry({}, {FALSE}), ObjectEntry({TRUE}, {FALSE})}

EventFiles ==
  {[EmptyObject EXCEPT
      !.sound = s, !.notification = n,
      !.events = IF nested = UndefinedEntry THEN {}
                 ELSE {[NoEntries EXCEPT ![e] = nested]},
      !.legacy = [NoEntries EXCEPT ![e] = top]] :
     s \in OptBool, n \in {{}, {FALSE}}, e \in EventTypes,
     nested \in EntryChoices, top \in EntryChoices}

ArgItems ==
  {[type |-> "string", v |-> "{message}"], [type |-> "string", v |-> "-v"],
   [type |-> "number", v |-> "1"]}

ArgsChoices ==
  {{}, {StringValue}}
    \cup {{ArrayValue(a)} : a \in UNION {[1..n -> ArgItems] : n \in 0..MaxArgs}}

CommandFiles ==
  {[EmptyObject EXCEPT
      !.command = {[enabled |-> en, path |-> p, args |-> a, minDuration |-> m]}] :
     en \in OptBool, p \in {{}, {""}, {"/usr/bin/say"}},
     a \in ArgsChoices, m \in {{}, {0}, {30}, {-1}}}

ScalarFiles ==
  {[EmptyObject EXCEPT
      !.timeout = t, !.showProjectName = sp, !.showIcon = si,
      !.notificationSystem = ns] :
     t \in {{}, {0}, {10}}, sp \in OptBool, si \in OptBool,
     ns \in {{}, {"node-notifier"}, {"osascript"}, {"growl"}}}

NoStrings == [e \in EventTypes |-> {}]

TextFiles ==
  {[EmptyObject EXCEPT
      !.sound = s,
      !.messages = IF m = {} THEN {} ELSE {[NoStrings EXCEPT ![e] = m]},
      !.sounds = IF p = {} THEN {} ELSE {[NoStrings EXCEPT ![e] = p]}] :
     s \in OptBool, e \in EventTypes,
     m \in {{}, {"Custom message"}}, p \in {{}, {"/sounds/custom.wav"}}}

ConfigFiles ==
  {AbsentFile, MalformedFile} \cup EventFiles \cup CommandFiles
    \cup ScalarFiles \cup TextFiles

----------------------------------------------------------------------------
(* Operations on the config file *)

InitConfig ==
  /\ file \in ConfigFiles
  /\ DEFAULT_CONFIG = InitialDefaultConfig
  /\ loaded = {}
  /\ loadedRef = "none"
  /\ result = NoResult
  /\ lastOp = "init"
  /\ pluginConfig = InitialDefaultConfig
  /\ suppressWhenFocused = FALSE
  /\ platform = "linux"
  /\ terminalName = {}
  /\ IdleDispatcher
  /\ toEmit = 0

ExecuteSoundToggle(action) ==
  LET r == executeSoundToggle(action, file, DEFAULT_CONFIG)
  IN /\ file' = r.file
     /\ DEFAULT_CONFIG' = r.DEFAULT_CONFIG
     /\ result' = r.result
     /\ lastOp' = action
     /\ loaded' = IF loadedRef = "DEFAULT_CONFIG" THEN {r.DEFAULT_CONFIG} ELSE loaded
     /\ UNCHANGED <<loadedRef, dvars>>

EnableSound == ExecuteSoundToggle("enable")

DisableSound == ExecuteSoundToggle("disable")

ToggleSound == ExecuteSoundToggle("toggle")

SoundStatus == ExecuteSoundToggle("status")

UnknownAction == ExecuteSoundToggle("unknown")

\* const config = loadConfig(); the object stays the harness's own, and is
\* DEFAULT_CONFIG itself when loadConfig returned that
LoadConfig ==
  /\ loaded' = {loadConfig(file, DEFAULT_CONFIG)}
  /\ loadedRef' = IF returnsDefaultObject(file) THEN "DEFAULT_CONFIG" ELSE "fresh"
  /\ lastOp' = "loadConfig"
  /\ UNCHANGED <<file, DEFAULT_CONFIG, result, dvars>>

\* saveConfig(config) of the object loaded last
SaveConfig ==
  /\ lastOp = "loadConfig"
  /\ file' = saveConfig(Get(loaded))
  /\ lastOp' = "saveConfig"
  /\ UNCHANGED <<DEFAULT_CONFIG, loaded, loadedRef, result, dvars>>

\* the test fixture: writeFileSync(path, JSON.stringify({ sound, notification: true }))
createTestConfig(sound) ==
  /\ file' = [EmptyObject EXCEPT !.sound = {sound}, !.notification = {TRUE}]
  /\ lastOp' = "createTestConfig"
  /\ UNCHANGED <<DEFAULT_CONFIG, loaded, loadedRef, result, dvars>>

CreateTestConfig == \E sound \in BOOLEAN : createTestConfig(sound)

\* the test fixture: rmSync(path)
CleanupTestConfig ==
  /\ existsSync(file)
  /\ file' = AbsentFile
  /\ lastOp' = "cleanupTestConfig"
  /\ UNCHANGED <<DEFAULT_CONFIG, loaded, loadedRef, result, dvars>>

NextConfig ==
  \/ EnableSound
  \/ DisableSound
  \/ ToggleSound
  \/ SoundStatus
  \/ UnknownAction
  \/ LoadConfig
  \/ SaveConfig
  \/ CreateTestConfig
  \/ CleanupTestConfig

SpecConfig == InitConfig /\ [][NextConfig]_vars

----------------------------------------------------------------------------
(* Sound Toggle and Config Resolver properties *)

\* C1: when the config file does not exist, enable, disable, toggle and
\* status each return success = false with a message containing
\* "Config file not found", and the file still does not exist afterwards.
C1_NotFoundAndNoWrite ==
  [][(~existsSync(file) /\ lastOp' \in SoundToggleActions)
       => /\ result'.success = FALSE
          /\ Includes(result'.message, "Config file not found")
          /\ ~existsSync(file')]_vars

C1_Witness ==
  /\ lastOp = "toggle"
  /\ ~existsSync(file)
  /\ result.success = FALSE
  /\ Includes(result.message, "Config file not found")

\* C2: for an existing config file with a boolean sound value b, toggleSound
\* returns soundEnabled = ~b and persists sound = ~b, and a second toggleSound
\* brings the persisted sound value back to b.
C2_ToggleInvolution ==
  [][(file.kind = "object" /\ file.sound # {} /\ lastOp' = "toggle")
       => LET b == Get(file.sound)
          IN /\ result'.success
             /\ result'.soundEnabled = {~b}
             /\ file'.kind = "object"
             /\ file'.sound = {~b}
             /\ toggleSound(file', DEFAULT_CONFIG').file.sound = {b}]_vars

C2_Witness ==
  /\ lastOp = "toggle"
  /\ result.success
  /\ result.soundEnabled = {FALSE}
  /\ file.sound = {FALSE}

\* C3: on an existing config file, whatever the previous sound value,
\* enableSound returns success, soundEnabled = true and "Sounds have been
\* enabled.", leaves the persisted sound flag true, and a second enableSound
\* gives the same result and the same file; likewise disableSound with false.
C3_EnableDisableIdempotent ==
  [][/\ (existsSync(file) /\ lastOp' = "enable")
          => /\ result' = [success |-> TRUE,
                           message |-> <<"Sounds have been enabled.">>,
                           soundEnabled |-> {TRUE}]
             /\ file'.sound = {TRUE}
             /\ enableSound(file', DEFAULT_CONFIG').result = result'
             /\ enableSound(file', DEFAULT_CONFIG').file = file'
     /\ (existsSync(file) /\ lastOp' = "disable")
          => /\ result' = [success |-> TRUE,
                           message |-> <<"Sounds have been disabled.">>,
                           soundEnabled |-> {FALSE}]
             /\ file'.sound = {FALSE}
             /\ disableSound(file', DEFAULT_CONFIG').result = result'
             /\ disableSound(file', DEFAULT_CONFIG').file = file']_vars

C3_Witness ==
  /\ lastOp = "enable"
  /\ result.success
  /\ result.soundEnabled = {TRUE}
  /\ file.sound = {TRUE}
  /\ file.events # {}

\* C4: loading a config file, saving the loaded object and loading again
\* gives a configuration equal to the first load in every field.
C4_RoundTrip ==
  lastOp = "saveConfig" => loadConfig(file, DEFAULT_CONFIG) = Get(loaded)

\* The flags the precedence rule of C5 gives event e for file f, whose
\* resolved global flags are g.
PrecedenceFlags(f, g, e) ==
  LET nested == IF f.events = {} THEN UndefinedEntry ELSE Get(f.events)[e]
      entry == IF nested # UndefinedEntry THEN nested ELSE f.legacy[e]
      base == IF e = "subagent_complete"
              THEN [sound |-> FALSE, notification |-> FALSE]
              ELSE [sound |-> g.sound, notification |-> g.notification]
  IN CASE entry.kind = "undefined" -> base
       [] entry.kind = "boolean" -> [sound |-> entry.value, notification |-> entry.value]
       [] entry.kind = "object" ->
            [sound |-> IF entry.sound = {} THEN base.sound ELSE Get(entry.sound),
             notification |-> IF entry.notification = {} THEN base.notification
                              ELSE Get(entry.notification)]

\* C5: loadConfig resolves each event's flags from the nested events entry,
\* else the top-level key of the event's name, else the global flags
\* ({false, false} for subagent_complete); a boolean entry sets both flags, an
\* object entry defaults each missing field on its own.
C5_Precedence ==
  (lastOp = "loadConfig" /\ file.kind = "object")
    => LET config == Get(loaded)
       IN /\ \A e \in EventTypes : config.events[e] = PrecedenceFlags(file, config, e)
          /\ (file.events # {} /\ Get(file.events)["complete"] = BooleanEntry(FALSE)
                /\ file.sound = {TRUE})
               => config.events["complete"].sound = FALSE
          /\ (file.events = {} /\ file.legacy["subagent_complete"] = UndefinedEntry)
               => config.events["subagent_complete"]
                    = [sound |-> FALSE, notification |-> FALSE]

C5_Witness ==
  /\ lastOp = "loadConfig"
  /\ file.kind = "object"
  /\ file.sound = {TRUE}
  /\ file.events # {}
  /\ Get(file.events)["complete"] = BooleanEntry(FALSE)
  /\ file.legacy["complete"] = BooleanEntry(TRUE)
  /\ Get(loaded).events["complete"] = [sound |-> FALSE, notification |-> FALSE]
  /\ Get(loaded).events["subagent_complete"] = [sound |-> FALSE, notification |-> FALSE]
  /\ Get(loaded).events["error"].sound = TRUE

\* C12 as stated: command.args is accepted only as an array whose entries
\* are all strings; for any other value, an array with a non-string entry
\* included, the resolved command.args is undefined.
C12_ArgsAllStringsOrAbsent ==
  (lastOp = "loadConfig" /\ file.kind = "object" /\ file.command # {})
    => LET args == Get(file.command).args
           accepted == /\ args # {}
                       /\ Get(args).kind = "array"
                       /\ \A i \in DOMAIN Get(args).items :
                            Get(args).items[i].type = "string"
       IN Get(loaded).command.args = IF accepted THEN {Get(args).items} ELSE {}

\* C12 amended: of an array the resolved command.args keeps the string
\* entries, in their order, and drops the others; for a value that is not an
\* array, or none, it is undefined.
C12_ArgsStringEntriesKept ==
  (lastOp = "loadConfig" /\ file.kind = "object" /\ file.command # {})
    => LET args == Get(file.command).args
           resolved == Get(loaded).command.args
       IN IF args # {} /\ Get(args).kind = "array"
          THEN LET items == Get(args).items
                   strings == {i \in DOMAIN items : items[i].type = "string"}
               IN /\ resolved # {}
                  /\ Len(Get(resolved)) = Cardinality(strings)
                  /\ \A i \in strings :
                       Get(resolved)[Cardinality({j \in strings : j <= i})] = items[i]
          ELSE resolved = {}

C12_Witness ==
  /\ lastOp = "loadConfig"
  /\ file.kind = "object"
  /\ file.command # {}
  /\ Get(file.command).args
       = {ArrayValue(<<[type |-> "number", v |-> "1"], [type |-> "string", v |-> "-v"]>>)}
  /\ Get(loaded).command.args = {<<[type |-> "string", v |-> "-v"]>>}

\* C11: status and an unknown action leave the config file as it is; status
\* on an existing file returns success with the persisted sound value, an
\* unknown action returns a failure whose message names the action.
C11_StatusAndUnknownFrame ==
  [][/\ lastOp' = "status"
          => /\ file' = file
             /\ existsSync(file) => result'.success
             /\ (file.kind = "object" /\ file.sound # {})
                  => result'.soundEnabled = file.sound
     /\ lastOp' = "unknown"
          => /\ file' = file
             /\ result'.success = FALSE
             /\ Includes(result'.message, "unknown")]_vars

C11_Witness ==
  /\ lastOp = "status"
  /\ file.kind = "object"
  /\ file.events # {}
  /\ file.sound = {FALSE}
  /\ result.success
  /\ result.soundEnabled = {FALSE}

----------------------------------------------------------------------------
(* The dispatcher and the notifier *)

\* C6: of two notifications with the same message text fired less than
\* 1000 ms apart, the first delivered, the second is not delivered; and a
\* notification is delivered when the last delivered notification with its
\* text (there is one) was fired at least 1000 ms before it, whatever was
\* suppressed in between.
C6_Debounce ==
  \A k \in 1..Len(sendLog) :
    LET deliveredBefore == {i \in 1..(k - 1) : /\ sendLog[i].text = sendLog[k].text
                                               /\ sendLog[i].delivered}
    IN /\ (\E i \in deliveredBefore : sendLog[k].at - sendLog[i].at < 1000)
            => ~sendLog[k].delivered
       /\ (/\ deliveredBefore # {}
           /\ \A i \in deliveredBefore : sendLog[k].at - sendLog[i].at >= 1000)
            => sendLog[k].delivered

\* a handling that went through handleEvent to its end without the focus
\* short-circuit
HandledToEnd ==
  /\ pc = "idle"
  /\ h.outcome = "resolved"
  /\ h.handled # <<>>
  /\ ~h.focused

\* the creation times of the user messages the host returned
UserMessageTimes ==
  {Get(h.response.data[i].created) :
     i \in {j \in 1..Len(h.response.data) : /\ h.response.data[j].role = "user"
                                            /\ h.response.data[j].created # {}}}

\* the elapsed time is known: the command is enabled with a path and a
\* positive minDuration, the event carries a session id, the host query
\* succeeded and returned a user message
ElapsedKnown ==
  /\ pluginConfig.command.enabled
  /\ pluginConfig.command.path # ""
  /\ pluginConfig.command.minDuration > 0
  /\ h.hook = "event"
  /\ h.sessionID \notin {{}, {""}}
  /\ h.response.kind = "ok"
  /\ UserMessageTimes # {}

\* milliseconds from the last user message to the host's answer
ElapsedMs ==
  h.elapsedAt - (CHOOSE t \in UserMessageTimes : \A u \in UserMessageTimes : u <= t)

\* the claim's gate: skip on a positive minDuration and a known elapsed time
\* below it
GateSkips ==
  /\ pluginConfig.command.minDuration > 0
  /\ ElapsedKnown
  /\ ElapsedMs < pluginConfig.command.minDuration * 1000

\* C7: in a handling that the focus suppression does not short-circuit, the
\* command is skipped if and only if minDuration > 0, the elapsed time since
\* the last user message is known and it is below minDuration (30: 10 s
\* skips, 31 s invokes); with the elapsed time unknown the command is invoked.
C7_CommandGating ==
  HandledToEnd =>
    /\ ("runCommand" \notin h.calls) <=> GateSkips
    /\ (pluginConfig.command.minDuration = 30 /\ ElapsedKnown /\ ElapsedMs = 10000)
         => "runCommand" \notin h.calls
    /\ (pluginConfig.command.minDuration = 30 /\ ElapsedKnown /\ ElapsedMs = 31000)
         => "runCommand" \in h.calls
    /\ (\/ h.hook \in {"permission.ask", "tool.execute.before"}
        \/ h.sessionID \in {{}, {""}}
        \/ h.response.kind = "throws"
        \/ (h.response.kind = "ok" /\ UserMessageTimes = {}))
         => "runCommand" \in h.calls

C7_Witness ==
  /\ HandledToEnd
  /\ pluginConfig.command.minDuration = 30
  /\ Len(h.response.data) = 2
  /\ h.response.data[1].role = "user"
  /\ h.response.data[2].role = "assistant"
  /\ ElapsedKnown
  /\ ElapsedMs = 10000
  /\ "runCommand" \notin h.calls
  /\ "playSound" \in h.calls

\* C8: a handler invocation never rejects; it has resolved once everything it
\* awaits has settled, whether the notifier, the sound, the focus query and
\* the session queries succeeded or failed; and unless the focus suppression
\* short-circuits it, every enabled action is dispatched whatever failed.
C8_AlwaysResolves ==
  /\ h.outcome # "rejected"
  /\ (pc = "idle" /\ h.hook # "") => h.outcome = "resolved"
  /\ pc = "allSettled" => (h.notification = "pending" \/ h.sound = "pending")
  /\ HandledToEnd =>
       /\ pluginConfig.events[h.eventType].notification => "sendNotification" \in h.calls
       /\ pluginConfig.events[h.eventType].sound => "playSound" \in h.calls
       /\ ~GateSkips => "runCommand" \in h.calls

C8_Witness ==
  /\ HandledToEnd
  /\ h.sessionGet = "throws"
  /\ h.focusQuery = "failed"
  /\ h.notifierError
  /\ h.sound = "rejected"
  /\ h.calls = {"sendNotification", "playSound", "runCommand"}

\* C9: a session.idle event is handled as exactly one event type:
\* subagent_complete when the event carries a session id and the host reports
\* a parent of the session, complete otherwise; no event is handled twice.
C9_IdleRouting ==
  /\ Len(h.handled) <= 1
  /\ (pc = "idle" /\ h.outcome = "resolved" /\ h.type = "session.idle")
       => h.handled = << IF /\ h.sessionID \notin {{}, {""}}
                            /\ h.sessionGet = "child"
                         THEN "subagent_complete" ELSE "complete" >>

C9_Witness ==
  /\ pc = "idle"
  /\ h.outcome = "resolved"
  /\ h.type = "session.idle"
  /\ h.sessionGet = "child"
  /\ h.handled = <<"subagent_complete">>
  /\ "sendNotification" \in h.calls

----------------------------------------------------------------------------
(* The Terminal Focus Detector *)

\* C13 as stated: on macOS and on Windows the detected terminal is mapped
\* through the static table, both names are normalized, and the terminal is
\* focused exactly when the OS query answered and one normalized name
\* contains the other (a name with no letter or digit matching nothing).
C13_MappedNormalizedContainment ==
  (focus.called /\ platform \in {"darwin", "win32"} /\ terminalName # {})
    => focus.focused
         = IF focus.frontmost \in {{}, {<<>>}} THEN FALSE
           ELSE LET front == normalizeAppName(Get(focus.frontmost))
                    terminal == normalizeAppName(
                                  getTerminalProcessName(Get(terminalName)))
                IN /\ front # <<>>
                   /\ terminal # <<>>
                   /\ (includes(front, terminal) \/ includes(terminal, front))

\* C13 amended: on macOS the detected terminal is mapped through the static
\* table and is focused exactly when the frontmost application's name equals
\* the mapped name, letter case apart; on Windows the detected terminal is
\* not mapped, and is focused exactly when its normalized name and the
\* normalized frontmost process name are both non-empty and one contains the
\* other; a failed or empty query, no detected terminal and any other
\* platform give not focused.
C13_PlatformMatching ==
  focus.called =>
    LET answered == focus.frontmost \notin {{}, {<<>>}}
    IN /\ (terminalName = {} \/ ~answered \/ platform \notin {"darwin", "win32"})
            => ~focus.focused
       /\ (terminalName # {} /\ answered /\ platform = "darwin")
            => focus.focused
                 = (toLowerCase(Get(focus.frontmost))
                      = toLowerCase(getTerminalProcessName(Get(terminalName))))
       /\ (terminalName # {} /\ answered /\ platform = "win32")
            => LET front == normalizeAppName(Get(focus.frontmost))
                   terminal == normalizeAppName(Get(terminalName))
               IN focus.focused
                    = /\ front # <<>>
                      /\ terminal # <<>>
                      /\ (includes(front, terminal) \/ includes(terminal, front))
       /\ (platform = "darwin" /\ terminalName = {<<"i", "t", "e", "r", "m">>}
             /\ focus.frontmost = {<<"i", "T", "e", "r", "m", "2">>}) => focus.focused
       /\ (platform = "win32" /\ terminalName = {<<"v", "s", "c", "o", "d", "e">>}
             /\ focus.frontmost = {<<"C", "o", "d", "e">>}) => focus.focused
       /\ (terminalName = {<<"k", "i", "t", "t", "y">>} /\ focus.frontmost = {<<"F", "i", "n", "d", "e", "r">>})
            => ~focus.focused

C13_Witness ==
  /\ focus.called
  /\ platform = "win32"
  /\ terminalName = {<<"v", "s", "c", "o", "d", "e">>}
  /\ focus.frontmost = {<<"C", "o", "d", "e">>}
  /\ focus.focused

----------------------------------------------------------------------------
(* The Sound Toggle and the dispatcher *)

\* C14: on a config file with no per-event overrides, after a successful
\* disableSound, or a toggleSound that turns the sound off, a fresh loadConfig
\* gives isEventSoundEnabled false for every event type; after a successful
\* enableSound it gives true for every event type but subagent_complete.
C14_ToggleControlsPlayback ==
  [][(file.kind = "object" /\ file.events = {} /\ file.legacy = NoEntries
        /\ result'.success)
       => LET fresh == loadConfig(file', DEFAULT_CONFIG')
          IN /\ (\/ lastOp' = "disable"
                 \/ (lastOp' = "toggle" /\ result'.soundEnabled = {FALSE}))
                  => \A e \in EventTypes : ~isEventSoundEnabled(fresh, e)
             /\ lastOp' = "enable"
                  => \A e \in EventTypes \ {"subagent_complete"} :
                       isEventSoundEnabled(fresh, e)]_vars

\* C15: whatever operations ran, loadConfig with the file absent returns
\* sound = true and notification = true, and no Sound Toggle operation
\* changes a configuration object loaded before it.
C15_DefaultsImmutable ==
  [][/\ loadConfig(AbsentFile, DEFAULT_CONFIG').sound = TRUE
     /\ loadConfig(AbsentFile, DEFAULT_CONFIG').notification = TRUE
     /\ lastOp' \in SoundToggleActions => loaded' = loaded]_vars

----------------------------------------------------------------------------
(* The key of the debounce *)

\* C16: the debounce is keyed by the message text: a notification is
\* suppressed only when a notification with the same text was delivered less
\* than 1000 ms before it, so two events with different messages fired within
\* 1000 ms in one project both get their notification delivered.
C16_KeyedByMessageText ==
  \A k \in 1..Len(sendLog) :
    ~sendLog[k].delivered
      => \E i \in 1..(k - 1) : /\ sendLog[i].text = sendLog[k].text
                               /\ sendLog[i].delivered
                               /\ sendLog[k].at - sendLog[i].at < 1000

====
